---- MODULE Spec2Model ----
(***************************************************************************)
(* Ownership-transfer service: the request handlers that move shares of a  *)
(* unit between owners.                                                    *)
(*                                                                         *)
(*   process_transfer     src/app/services/transfer_initiation_service.py  *)
(*   transfer_validation  src/app/services/validation_service.py           *)
(*                                                                         *)
(* and the inheritance path: the route inheritance_distribution            *)
(* (src/app/services/initiate_inheritance_service.py) and the split of     *)
(* InheritanceHandler (src/app/services/inheritance_handler.py).           *)
(*                                                                         *)
(* The durable store (units, owners, ownership_history,                    *)
(* ownership_transfers, transfer_documents, audit_logs) and the Redis      *)
(* cache are the state.  Percentages are integers; the code's float        *)
(* tolerance test abs(x - 100) > 1e-9 is then x # 100.                     *)
(*                                                                         *)
(* Every request runs in its own session: its reads see the committed      *)
(* store, its writes reach the store when the `async with db.begin()`      *)
(* block commits (the session is built with autoflush=False and the        *)
(* handlers never await a flush).  The annotation open[UUID] of            *)
(* ValidationRequest.transfer_id (ownership_schema.py, line 71) is read    *)
(* as Optional[UUID], so that the service starts.                          *)
(***************************************************************************)
EXTENDS Integers, Sequences, FiniteSets, TLC

(***************************************************************************)
(* Bounds of the model.                                                    *)
(***************************************************************************)
MaxDocuments == 1        \* longest documents list of a request

FullOwnership == 100     \* the total every unit's current shares must have

Units == {"U1", "U2"}            \* rows of table units
MissingUnit == "U0"              \* a unit_id with no row
Procs == {1, 2}                  \* concurrent requests (sessions)
None == "None"                   \* Python None, and str(None)
NoEntry == [absent |-> TRUE]     \* redis.get -> None

\* rows of table owners: owner_id and emirates_id
OwnerRows ==
  { [owner_id |-> "A", emirates_id |-> "784-A"],
    [owner_id |-> "B", emirates_id |-> "784-B"],
    [owner_id |-> "C", emirates_id |-> "784-C"] }
EmiratesIds == {"784-B", "784-C", "784-X", "784-Y"}

\* HTTP outcomes of a request
Success == "200"
BadRequest == "400"
NotFound == "404"
Conflict == "409"
Unprocessable == "422"
Internal == "500"

VARIABLES
  units,        \* unit_id of every Unit row
  owners,       \* Owner rows
  history,      \* OwnershipHistory rows
  transfers,    \* OwnershipTransfer rows
  documents,    \* TransferDocument rows
  audit,        \* AuditLog rows
  cache,        \* Redis: unit_id -> staged record, or NoEntry
  pc,           \* per request: where its handler stands
  req,          \* per request: the payload
  loc,          \* per request: the handler's local variables
  result,       \* per request: the response status
  past          \* history: what the verifier rejected, the last Confirm answered

store == <<units, owners, history, transfers, documents, audit>>
vars == <<units, owners, history, transfers, documents, audit, cache,
          pc, req, loc, result, past>>

(***************************************************************************)
(* Helpers                                                                 *)
(***************************************************************************)
RECURSIVE SumOver(_, _)
\* sum(d.values()) of a dict d given as a function
SumOver(f, S) ==
  IF S = {} THEN 0
  ELSE LET k == CHOOSE x \in S : TRUE IN f[k] + SumOver(f, S \ {k})

SumValues(f) == SumOver(f, DOMAIN f)

RECURSIVE SumSeq(_)
SumSeq(s) == IF s = <<>> THEN 0 ELSE Head(s).ownership_percentage + SumSeq(Tail(s))

MaxOf(S) == IF S = {} THEN 0 ELSE CHOOSE x \in S : \A y \in S : y <= x

RECURSIVE SetToSeq(_)
SetToSeq(S) ==
  IF S = {} THEN <<>>
  ELSE LET k == CHOOSE x \in S : TRUE IN <<k>> \o SetToSeq(S \ {k})

InFlight(t) == t.status = "pending" \/ t.status = "in_progress"

\* a select that leaves out the test of the status
TransfersOfUnit(trs, u) == {t \in trs : t.unit_id = u}

\* the in-flight OwnershipTransfer rows of a unit
InFlightTransfers(trs, u) == {t \in trs : t.unit_id = u /\ InFlight(t)}

(***************************************************************************)
(* Request schema: src/app/schemas/ownership_schema.py                     *)
(***************************************************************************)
\* CurrentOwnerInfo.check_transfer_is_not_more_than_current_ownership
CheckTransferIsNotMoreThanCurrentOwnership(o) ==
  ~ (o.transfer_percentage > o.ownership_percentage)

\* a schema without the balance validator
PercentagesBalanceUnchecked(r) == TRUE

\* TransferRequest.check_percentages_balance
CheckPercentagesBalance(r) ==
  LET total_transfer_percentage ==
        SumOver([o \in DOMAIN r.current_owners |->
                   r.current_owners[o].transfer_percentage],
                DOMAIN r.current_owners)
      total_new_owner_percentage == SumSeq(r.new_owners)
  IN total_transfer_percentage = total_new_owner_percentage

\* pydantic builds the TransferRequest before the route handler runs
TransferRequestValid(r) ==
  /\ \A o \in DOMAIN r.current_owners :
        CheckTransferIsNotMoreThanCurrentOwnership(r.current_owners[o])
  /\ CheckPercentagesBalance(r)

(***************************************************************************)
(* process_transfer: src/app/services/transfer_initiation_service.py       *)
(***************************************************************************)
\* a handler without the conflict test, as process_transfer of
\* src/app/services/ownership_service.py is
ConflictTransferSkipped(trs, u) == FALSE

\* Lines 54-59.  Line 58 binds conflict_transfer to the method
\* Result.scalar_one_or_none itself: the call parentheses are missing, so
\* no row is fetched and `if conflict_transfer:` tests a bound method,
\* which is true whatever rows trs holds for the unit.
ConflictTransfer(trs, u) == TRUE

\* lines 68-72: the rows of the unit with ownership_end_date IS NULL
CurrentOwnershipRecords(hist, u) ==
  {h \in hist : h.unit_id = u /\ h.ownership_end_date = None}

\* line 81: {record.owner_id: record.ownership_percentage for record in ...};
\* a later row of the same owner overwrites an earlier one
DbOwnerships(recs) ==
  [o \in {h.owner_id : h \in recs} |->
     LET rows == {h \in recs : h.owner_id = o}
         lastRow == CHOOSE h \in rows : \A g \in rows : g.history_id <= h.history_id
     IN lastRow.ownership_percentage]

\* lines 91-96: every seller's ledger percentage less what the request transfers
FinalOwnerships(db_ownerships, r) ==
  [o \in DOMAIN db_ownerships |->
     db_ownerships[o] - r.current_owners[o].transfer_percentage]

\* lines 102-105: select(Owner.owner_id).where(Owner.emirates_id == emirates_id),
\* scalar_one_or_none(); no Owner row is created when there is none
BuyerOwnerId(own, emirates_id) ==
  IF \E o \in own : o.emirates_id = emirates_id
  THEN (CHOOSE o \in own : o.emirates_id = emirates_id).owner_id
  ELSE None

RECURSIVE BuyerOwnershipsFrom(_, _, _)
\* lines 100-107: buyer_ownerships[f"{buyer_owner_id}"] = buyer.ownership_percentage,
\* in list order; a repeated key keeps the last percentage
BuyerOwnershipsFrom(d, own, new_owners) ==
  IF new_owners = <<>> THEN d
  ELSE LET buyer == Head(new_owners)
           key == BuyerOwnerId(own, buyer.emirates_id)
       IN BuyerOwnershipsFrom(
            [k \in DOMAIN d \cup {key} |->
               IF k = key THEN buyer.ownership_percentage ELSE d[k]],
            own, Tail(new_owners))

BuyerOwnerships(own, new_owners) ==
  BuyerOwnershipsFrom([k \in {} |-> 0], own, new_owners)

\* a failure that leaves the audit row the session had flushed (no rollback)
FailAfterFlush(code) ==
  [status |-> code, transfers |-> {}, documents |-> {},
   audit |-> {[log_id |-> 0, table_name |-> "ownership_transfers",
               record_id |-> 0, action |-> "INSERT", new_values |-> {}]},
   cache_record |-> NoEntry]

\* what a request that ends in an HTTPException or another exception leaves:
\* the transaction is rolled back and the cache is not written
Fail(code) ==
  [status |-> code, transfers |-> {}, documents |-> {}, audit |-> {},
   cache_record |-> NoEntry]

\* lines 129-142: one TransferDocument per submitted document, its
\* verification_status the one the request supplies
TransferDocuments(docs, transfer_id, docRows) ==
  { [document_id |-> MaxOf({d.document_id : d \in docRows}) + i,
     transfer_id |-> transfer_id,
     verification_status |-> docs[i]] : i \in 1..Len(docs) }

\* lines 148-156: new_values holds str(value) for every field of the
\* payload; the payload has no field named sellers or buyers
AuditNewValues ==
  {"unit_id", "transfer_type", "current_owners", "new_owners",
   "transfer_date", "purchase_price", "legal_reason", "documents"}

\* lines 62-199, what the transaction block does once the conflict test is passed
TransferBody(r, uns, own, hist, trs, docRows, logs) ==
  IF r.unit_id \notin uns THEN Fail(NotFound)                      \* 63-66
  ELSE
    LET current_ownership_records == CurrentOwnershipRecords(hist, r.unit_id)
    IN
    \* 74-75 index rows [0] and [1] before the emptiness test of line 77
    IF Cardinality(current_ownership_records) < 2 THEN Fail(Internal)
    ELSE IF current_ownership_records = {} THEN Fail(NotFound)       \* 77-78
    ELSE
      LET db_ownerships == DbOwnerships(current_ownership_records)
      IN
      IF SumValues(db_ownerships) # FullOwnership THEN Fail(Conflict)   \* 83-84
      ELSE IF DOMAIN r.current_owners # DOMAIN db_ownerships          \* 86-88
      THEN Fail(BadRequest)
      ELSE
        LET final_ownerships == FinalOwnerships(db_ownerships, r)
            buyer_ownerships == BuyerOwnerships(own, r.new_owners)
            transfer_id == MaxOf({t.transfer_id : t \in trs}) + 1
        IN
        IF SumValues(final_ownerships) + SumValues(buyer_ownerships)
             # FullOwnership
        THEN Fail(Conflict)                                           \* 111-114
        ELSE
          [status |-> Success,
           transfers |->
             {[transfer_id |-> transfer_id, unit_id |-> r.unit_id,
               transfer_date |-> r.transfer_date, status |-> "pending"]},
           documents |-> TransferDocuments(r.documents, transfer_id, docRows),
           audit |->
             {[log_id |-> MaxOf({a.log_id : a \in logs}) + 1,
               table_name |-> "ownership_transfers",
               record_id |-> transfer_id, action |-> "INSERT",
               new_values |-> AuditNewValues]},
           cache_record |->
             [absent |-> FALSE, transfer_id |-> transfer_id,
              transfer_date |-> r.transfer_date,
              sellers |-> final_ownerships, buyers |-> buyer_ownerships]]

\* lines 52-206
ProcessTransferOutcome(r, uns, own, hist, trs, docRows, logs) ==
  IF ConflictTransfer(trs, r.unit_id) THEN Fail(Conflict)            \* 59-60
  ELSE TransferBody(r, uns, own, hist, trs, docRows, logs)

(***************************************************************************)
(* Requests the model submits                                              *)
(***************************************************************************)
TransferDates == {"2024-01-01"}
SellerEntries ==
  { [ownership_percentage |-> 100, transfer_percentage |-> 40],
    [ownership_percentage |-> 100, transfer_percentage |-> 60],
    [ownership_percentage |-> 40, transfer_percentage |-> 60] }
SellerLists == UNION {[S -> SellerEntries] : S \in {{"A"}, {"A", "B"}}}
BuyerEntries == [emirates_id : EmiratesIds, ownership_percentage : {40, 80}]
\* no buyer, one buyer, or two: a known or an unknown one with 40, then a
\* co-owner or another unknown one with 80
BuyerLists ==
  {<<>>} \cup {<<b>> : b \in BuyerEntries}
         \cup {<<[emirates_id |-> e, ownership_percentage |-> 40],
                  [emirates_id |-> f, ownership_percentage |-> 80]>> :
                  e \in {"784-C", "784-X"}, f \in {"784-B", "784-Y"}}
\* the verification_status a request gives a document (DocumentInfo, line 13:
\* an optional string, "pending" when left out)
DocumentStatuses == {"pending", "not verified", "approved"}
DocumentLists == UNION {[1..n -> DocumentStatuses] : n \in 0..MaxDocuments}

TransferRequests ==
  [unit_id : Units \cup {MissingUnit}, current_owners : SellerLists,
   new_owners : BuyerLists, documents : DocumentLists,
   transfer_date : TransferDates]

(***************************************************************************)
(* transfer_validation: src/app/services/validation_service.py             *)
(***************************************************************************)
\* lines 11-15: the placeholder verifier
document_verfication(doc) == TRUE

\* what the verifier answers for every document when it is the placeholder
PlaceholderAnswers(docRows) ==
  [i \in {d.document_id : d \in docRows} |->
     document_verfication(CHOOSE d \in docRows : d.document_id = i)]

\* what it may answer once it is the external service lines 12-13 announce
ExternalAnswers(docRows) == [{d.document_id : d \in docRows} -> BOOLEAN]

RECURSIVE VerifyDocuments(_, _, _)
\* lines 34-47 over the documents in document_id order: the statuses the
\* session sets, or raised when a document stops the request with 400
VerifyDocuments(docs, updates, answers) ==
  IF docs = <<>> THEN [raised |-> FALSE, updates |-> updates]
  ELSE
    LET doc == Head(docs) IN
    IF doc.verification_status = "pending"
    THEN IF ~ answers[doc.document_id]
         THEN [raised |-> TRUE,
               updates |-> updates \cup
                 {[document_id |-> doc.document_id,
                   verification_status |-> "not verified"]}]
         ELSE VerifyDocuments(Tail(docs), updates \cup
                 {[document_id |-> doc.document_id,
                   verification_status |-> "verified"]}, answers)
    ELSE IF doc.verification_status = "not verified"
    THEN [raised |-> TRUE, updates |-> updates]
    ELSE VerifyDocuments(Tail(docs), updates, answers)

\* the TransferDocument rows of a transfer, in document_id order
DocumentsOf(docRows, transfer_id) ==
  LET mine == {d \in docRows : d.transfer_id = transfer_id}
      ids == {d.document_id : d \in mine}
      Rank(d) == Cardinality({i \in ids : i < d.document_id}) + 1
  IN [i \in 1..Cardinality(mine) |-> CHOOSE d \in mine : Rank(d) = i]

\* lines 62-70: the seller's rows of the unit with is_current_owner
SellerRows(hist, u, seller_id) ==
  {h \in hist : h.unit_id = u /\ h.owner_id = seller_id /\ h.is_current_owner}

\* lines 61-88: scalar_one_or_none() raises MultipleResultsFound on two rows
SellersRaise(hist, u, data) ==
  \E s \in DOMAIN data.sellers : Cardinality(SellerRows(hist, u, s)) > 1

\* a loop that keeps the row of a seller with nothing left (>= for >)
SellerUpdatesKeepingEmptyShare(hist, u, data) ==
  { IF data.sellers[h.owner_id] >= 0
    THEN [history_id |-> h.history_id,
          ownership_percentage |-> data.sellers[h.owner_id],
          is_current_owner |-> TRUE, ownership_end_date |-> None]
    ELSE [history_id |-> h.history_id,
          ownership_percentage |-> h.ownership_percentage,
          is_current_owner |-> FALSE,
          ownership_end_date |-> data.transfer_date]
    : h \in {g \in hist : g.unit_id = u /\ g.is_current_owner
                            /\ g.owner_id \in DOMAIN data.sellers} }

\* a loop that closes a row without its end date (line 86 left out)
SellerUpdatesWithoutEndDate(hist, u, data) ==
  { IF data.sellers[h.owner_id] > 0
    THEN [history_id |-> h.history_id,
          ownership_percentage |-> data.sellers[h.owner_id],
          is_current_owner |-> TRUE, ownership_end_date |-> None]
    ELSE [history_id |-> h.history_id,
          ownership_percentage |-> h.ownership_percentage,
          is_current_owner |-> FALSE, ownership_end_date |-> None]
    : h \in {g \in hist : g.unit_id = u /\ g.is_current_owner
                            /\ g.owner_id \in DOMAIN data.sellers} }

\* lines 77-88: what the session sets on the seller rows it found
SellerUpdates(hist, u, data) ==
  { IF data.sellers[h.owner_id] > 0
    THEN [history_id |-> h.history_id,
          ownership_percentage |-> data.sellers[h.owner_id],
          is_current_owner |-> TRUE, ownership_end_date |-> None]
    ELSE [history_id |-> h.history_id,
          ownership_percentage |-> h.ownership_percentage,
          is_current_owner |-> FALSE,
          ownership_end_date |-> data.transfer_date]
    : h \in {g \in hist : g.unit_id = u /\ g.is_current_owner
                            /\ g.owner_id \in DOMAIN data.sellers} }

\* lines 91-103: one new current row per staged buyer
BuyerInserts(u, data) ==
  LET keys == SetToSeq(DOMAIN data.buyers)
  IN [i \in 1..Len(keys) |->
        [unit_id |-> u, owner_id |-> keys[i],
         ownership_start_date |-> data.transfer_date,
         ownership_end_date |-> None,
         ownership_percentage |-> data.buyers[keys[i]],
         is_current_owner |-> TRUE]]

\* src/app/db/models.py: ownership_history.owner_id is a foreign key to
\* owners.owner_id, and ownership_percentage_check bounds the percentage
HistoryRowAccepted(own, row) ==
  /\ row.owner_id \in {o.owner_id : o \in own}
  /\ row.ownership_percentage > 0
  /\ row.ownership_percentage <= FullOwnership

\* a flush that deletes the rows it was to update
DeleteUpdatedRows(hist, updates) ==
  {h \in hist : ~ \E x \in updates : x.history_id = h.history_id}

\* the flush of the commit: every UPDATE by primary key, every INSERT
ApplyUpdates(hist, updates) ==
  { IF \E x \in updates : x.history_id = h.history_id
    THEN LET x == CHOOSE y \in updates : y.history_id = h.history_id
         IN [h EXCEPT !.ownership_percentage = x.ownership_percentage,
                      !.is_current_owner = x.is_current_owner,
                      !.ownership_end_date = x.ownership_end_date]
    ELSE h : h \in hist }

ApplyInserts(hist, inserts) ==
  hist \cup
  { [history_id |-> MaxOf({h.history_id : h \in hist}) + i,
     unit_id |-> inserts[i].unit_id, owner_id |-> inserts[i].owner_id,
     ownership_start_date |-> inserts[i].ownership_start_date,
     ownership_end_date |-> inserts[i].ownership_end_date,
     ownership_percentage |-> inserts[i].ownership_percentage,
     is_current_owner |-> inserts[i].is_current_owner]
    : i \in 1..Len(inserts) }

ApplyDocumentUpdates(docRows, updates) ==
  { IF \E x \in updates : x.document_id = d.document_id
    THEN [d EXCEPT !.verification_status =
            (CHOOSE y \in updates : y.document_id = d.document_id)
              .verification_status]
    ELSE d : d \in docRows }

\* lines 105-107: transfer.status = "completed"
CompleteTransfer(trs, transfer_id) ==
  { IF t.transfer_id = transfer_id THEN [t EXCEPT !.status = "completed"] ELSE t
    : t \in trs }

(***************************************************************************)
(* InheritanceHandler: src/app/services/inheritance_handler.py             *)
(* Percentages of the split are exact fractions num/den in lowest terms.   *)
(***************************************************************************)
MaxHeirs == 3            \* most heirs of an inheritance request

RECURSIVE GCD(_, _)
GCD(a, b) == IF b = 0 THEN a ELSE GCD(b, a % b)

Frac(n, d) == LET g == GCD(n, d) IN [num |-> n \div g, den |-> d \div g]
Whole(n) == Frac(n, 1)
Over(q, k) == Frac(q.num, q.den * k)                    \* q / k
Times(q, k) == Frac(q.num * k, q.den)                   \* q * k
Minus(a, b) == Frac(a.num * b.den - b.num * a.den, a.den * b.den)

\* heirs: Dict[str, str] (InheritanceRequest, line 78), identity ->
\* relationship; the i-th key in insertion order is HeirNames[i]
HeirNames == <<"H1", "H2", "H3", "H4">>
Relationships == {"wife", "son", "daughter", "brother"}
HeirMaps == UNION {[1..n -> Relationships] : n \in 0..MaxHeirs}
EstatePercentages == {40, 100}

\* what the call of an `async def` gives when it is not awaited: a coroutine
\* object, the body not run
Coroutine == [coroutine |-> TRUE]
IsCoroutine(x) == "coroutine" \in DOMAIN x

\* lines 5-7, as line 29 calls it (without await)
validate_heirs(deceased_owner_id, heirs) == Coroutine

\* lines 9-26, as line 32 calls it (without await)
calculate_islamic_distribution(deceased_owner_id, heirs) == Coroutine

\* line 59
NoShares == [name |-> "", share |-> Whole(0)]

RECURSIVE HeirsLoop(_, _, _, _)
\* lines 60-69: the one dict inheritance_shares is overwritten by every heir
\* whose relationship is 'wife', 'daughter' or 'sone'; share holds
\* share_of_one_wife, daughter_share and son_share
HeirsLoop(inheritance_shares, heirs, i, share) ==
  IF i > Len(heirs) THEN inheritance_shares
  ELSE HeirsLoop(
         IF heirs[i] = "wife"
         THEN [name |-> HeirNames[i], share |-> share.share_of_one_wife]
         ELSE IF heirs[i] = "daughter"
         THEN [name |-> HeirNames[i], share |-> share.daughter_share]
         ELSE IF heirs[i] = "sone"
         THEN [name |-> HeirNames[i], share |-> share.son_share]
         ELSE inheritance_shares,
         heirs, i + 1, share)

\* lines 33-71, for a dict islamic_distribution that holds the three counts
InheritanceShares(islamic_distribution, ownership_percentage, heirs) ==
  LET wives == islamic_distribution.no_of_wives
      daughters == islamic_distribution.no_of_daughters
      sons == islamic_distribution.no_of_sons
      wives_share == Over(Whole(ownership_percentage), 8)             \* 39
      share_of_one_wife ==
        IF wives > 0 THEN Over(wives_share, wives) ELSE Whole(0)      \* 40
      rest_shares ==
        IF wives > 0 THEN Minus(Whole(ownership_percentage), wives_share)
        ELSE IF wives = 0 THEN Whole(ownership_percentage)            \* 43
        ELSE Whole(0)
      one_child_share == Over(rest_shares, 2 * sons + daughters)      \* 54-55
      daughter_share ==
        IF daughters # 0 /\ sons = 0 THEN Over(rest_shares, daughters)
        ELSE IF sons # 0 /\ daughters = 0 THEN Whole(0)
        ELSE IF sons > 0 /\ daughters > 0 THEN one_child_share
        ELSE Whole(0)
      son_share ==
        IF daughters # 0 /\ sons = 0 THEN Whole(0)
        ELSE IF sons # 0 /\ daughters = 0 THEN Over(rest_shares, sons)
        ELSE IF sons > 0 /\ daughters > 0 THEN Times(one_child_share, 2)
        ELSE Whole(0)
  IN HeirsLoop(NoShares, heirs, 1,
               [share_of_one_wife |-> share_of_one_wife,
                daughter_share |-> daughter_share, son_share |-> son_share])

\* lines 28-71.  Line 29 tests a coroutine object, which is true, so no
\* ValueError; line 32 binds islamic_distribution to a coroutine object, and
\* line 37 subscripts it: TypeError ('coroutine' object is not subscriptable)
handle_inheritance_transfer(deceased_owner_id, ownership_percentage, heirs) ==
  IF ~ IsCoroutine(validate_heirs(deceased_owner_id, heirs))
  THEN [raised |-> "ValueError", inheritance_shares |-> NoShares]
  ELSE
    LET islamic_distribution ==
          calculate_islamic_distribution(deceased_owner_id, heirs)
    IN IF IsCoroutine(islamic_distribution)
       THEN [raised |-> "TypeError", inheritance_shares |-> NoShares]
       ELSE IF "no_of_wives" \notin DOMAIN islamic_distribution
       THEN [raised |-> "KeyError", inheritance_shares |-> NoShares]
       ELSE [raised |-> "returned",
             inheritance_shares |->
               InheritanceShares(islamic_distribution, ownership_percentage,
                                 heirs)]

\* the payloads of POST /ownership/transfers/inheritance-distribution
\* (InheritanceRequest, ownership_schema.py lines 73-81)
InheritanceRequests ==
  [unit_id : Units, deceased_owner_id : {"A", "Z"},
   ownership_percentage : EstatePercentages, heirs : HeirMaps]

(***************************************************************************)
(* The store a deployment starts against                                   *)
(***************************************************************************)
LedgerRow(id, u, o, pct) ==
  [history_id |-> id, unit_id |-> u, owner_id |-> o,
   ownership_start_date |-> "2020-01-01", ownership_end_date |-> None,
   ownership_percentage |-> pct, is_current_owner |-> TRUE]

\* the current rows of U1: two co-owners, a single owner, or none yet
LedgersU1 ==
  { {LedgerRow(1, "U1", "A", 60), LedgerRow(2, "U1", "B", 40)},
    {LedgerRow(1, "U1", "A", 100)},
    {} }
LedgersU2 ==
  { {LedgerRow(3, "U2", "A", 40), LedgerRow(4, "U2", "B", 60)} }

NoTransfer == Fail("none")

\* A unit may already have a transfer in flight when the service starts:
\* the rows and the staged record are those lines 62-199 of
\* process_transfer write for a request the schema accepts.
InFlightAtStart(u, hist, trs, docRows, logs) ==
  {NoTransfer} \cup
  { o \in { TransferBody(r, Units, OwnerRows, hist, trs, docRows, logs) :
              r \in {x \in TransferRequests :
                       x.unit_id = u /\ TransferRequestValid(x)} } :
      o.status = Success }

NoRequest == [op |-> "none"]
NoLocals ==
  [transfer_id |-> 0, unit_id |-> None, doc_updates |-> {}, data |-> NoEntry,
   updates |-> {}, inserts |-> <<>>, overlapped |-> FALSE,
   deleted |-> FALSE, inheritance_shares |-> NoShares]
NoConfirm == [unit_id |-> None, status |-> None]
NoPast == [rejected |-> {}, confirm |-> NoConfirm]

Init ==
  /\ units = Units
  /\ owners = OwnerRows
  /\ \E h1 \in LedgersU1, h2 \in LedgersU2, u \in Units :
       /\ history = h1 \cup h2
       /\ \E o \in InFlightAtStart(u, h1 \cup h2, {}, {}, {}) :
            /\ transfers = o.transfers
            /\ documents = o.documents
            /\ audit = o.audit
            \* line 199 may have failed (201-204), or the key has expired
            /\ \E c \in {o.cache_record, NoEntry} :
                 cache = [x \in Units |-> IF x = u THEN c ELSE NoEntry]
  /\ pc = [p \in Procs |-> "idle"]
  /\ req = [p \in Procs |-> NoRequest]
  /\ loc = [p \in Procs |-> NoLocals]
  /\ result = [p \in Procs |-> None]
  /\ past = NoPast

(***************************************************************************)
(* Actions                                                                 *)
(***************************************************************************)
Finish(p, code) ==
  /\ pc' = [pc EXCEPT ![p] = "done"]
  /\ result' = [result EXCEPT ![p] = code]

\* POST /ownership/transfers/initiate, src/app/api/v1/ownership.py 20-66:
\* the payload is validated into a TransferRequest (422 when a validator
\* raises) and handed to process_transfer
InitiateTransfer(p, r) ==
  /\ pc[p] = "idle"
  /\ req' = [req EXCEPT ![p] = [op |-> "initiate", payload |-> r]]
  /\ IF TransferRequestValid(r)
     THEN pc' = [pc EXCEPT ![p] = "process_transfer"] /\ UNCHANGED result
     ELSE Finish(p, Unprocessable)
  /\ UNCHANGED <<store, cache, loc, past>>

\* process_transfer, lines 52-206; cached is whether redis.set of line 199
\* succeeds (its failure is logged, lines 201-204)
ProcessTransfer(p, cached) ==
  /\ pc[p] = "process_transfer"
  /\ LET r == req[p].payload
         out == ProcessTransferOutcome(r, units, owners, history, transfers,
                                       documents, audit)
     IN /\ transfers' = transfers \cup out.transfers
        /\ documents' = documents \cup out.documents
        /\ audit' = audit \cup out.audit
        /\ cache' = IF out.status = Success /\ cached
                    THEN [cache EXCEPT ![r.unit_id] = out.cache_record]
                    ELSE cache
        /\ Finish(p, out.status)
        \* history only: another request for the unit was being handled
        /\ loc' = [loc EXCEPT ![p].overlapped =
                     \E q \in Procs \ {p} :
                        /\ pc[q] = "process_transfer"
                        /\ req[q].payload.unit_id = r.unit_id]
  /\ UNCHANGED <<units, owners, history, req, past>>

\* POST /ownership/validate-transfer, src/app/api/v1/ownership.py 173-219
ValidateTransfer(p, u) ==
  /\ pc[p] = "idle"
  /\ req' = [req EXCEPT ![p] = [op |-> "validate", payload |-> [unit_id |-> u]]]
  /\ pc' = [pc EXCEPT ![p] = "find_transfer"]
  /\ UNCHANGED <<store, cache, loc, result, past>>

\* lines 19-28; scalar_one_or_none() raises on two in-flight rows, which the
\* route turns into 500
FindTransfer(p) ==
  /\ pc[p] = "find_transfer"
  /\ LET rows == InFlightTransfers(transfers, req[p].payload.unit_id)
     IN IF rows = {} THEN Finish(p, NotFound) /\ UNCHANGED loc
        ELSE IF Cardinality(rows) > 1 THEN Finish(p, Internal) /\ UNCHANGED loc
        ELSE LET transfer == CHOOSE t \in rows : TRUE
             IN /\ loc' = [loc EXCEPT ![p].transfer_id = transfer.transfer_id,
                                      ![p].unit_id = transfer.unit_id]
                /\ pc' = [pc EXCEPT ![p] = "verify_documents"]
                /\ UNCHANGED result
  /\ UNCHANGED <<store, cache, req, past>>

\* lines 29-47; an HTTPException leaves the block, which rolls back what
\* the session had set
VerifyTransferDocuments(p, answers) ==
  /\ pc[p] = "verify_documents"
  /\ LET v == VerifyDocuments(DocumentsOf(documents, loc[p].transfer_id), {},
                              answers)
         \* history only: the documents the verifier has just rejected
         refused == {x.document_id : x \in
                      {y \in v.updates : y.verification_status = "not verified"}}
     IN /\ past' = [past EXCEPT !.rejected = @ \cup refused]
        /\ IF v.raised THEN Finish(p, BadRequest) /\ UNCHANGED loc
           ELSE /\ loc' = [loc EXCEPT ![p].doc_updates = v.updates]
                /\ pc' = [pc EXCEPT ![p] = "read_cache"]
                /\ UNCHANGED result
  /\ UNCHANGED <<store, cache, req>>

\* a handler that has flushed and committed the documents' statuses by the
\* time it reads the cache
ReadCacheAfterCommit(p) ==
  /\ pc[p] = "read_cache"
  /\ documents' = ApplyDocumentUpdates(documents, loc[p].doc_updates)
  /\ IF cache[loc[p].unit_id] = NoEntry
     THEN Finish(p, NotFound) /\ UNCHANGED loc
     ELSE /\ loc' = [loc EXCEPT ![p].data = cache[loc[p].unit_id]]
          /\ pc' = [pc EXCEPT ![p] = "apply"]
          /\ UNCHANGED result
  /\ UNCHANGED <<units, owners, history, transfers, audit, cache, req, past>>

\* a handler without the test of lines 53-54: json.loads(None) raises
\* TypeError, which the route answers with 500
ReadCacheUnchecked(p) ==
  /\ pc[p] = "read_cache"
  /\ IF cache[loc[p].unit_id] = NoEntry
     THEN Finish(p, Internal) /\ UNCHANGED loc
     ELSE /\ loc' = [loc EXCEPT ![p].data = cache[loc[p].unit_id]]
          /\ pc' = [pc EXCEPT ![p] = "apply"]
          /\ UNCHANGED result
  /\ UNCHANGED <<store, cache, req, past>>

\* lines 49-59
ReadCache(p) ==
  /\ pc[p] = "read_cache"
  /\ LET cached_data_str == cache[loc[p].unit_id]
     IN IF cached_data_str = NoEntry THEN Finish(p, NotFound) /\ UNCHANGED loc
        ELSE /\ loc' = [loc EXCEPT ![p].data = cached_data_str]
             /\ pc' = [pc EXCEPT ![p] = "apply"]
             /\ UNCHANGED result
  /\ UNCHANGED <<store, cache, req, past>>

\* a handler without the redis.delete of line 110
ApplyDistributionKeepingEntry(p) ==
  /\ pc[p] = "apply"
  /\ LET u == loc[p].unit_id
         data == loc[p].data
     IN IF SellersRaise(history, u, data)
        THEN Finish(p, Internal) /\ UNCHANGED loc
        ELSE /\ loc' = [loc EXCEPT ![p].updates = SellerUpdates(history, u, data),
                                   ![p].inserts = BuyerInserts(u, data)]
             /\ pc' = [pc EXCEPT ![p] = "commit"]
             /\ UNCHANGED result
  /\ UNCHANGED <<store, cache, req, past>>

\* lines 61-110: the seller rows are read and changed in the session, the
\* buyer rows and the completed status are added to it, and the cache key
\* is deleted, all before the block commits
ApplyDistribution(p) ==
  /\ pc[p] = "apply"
  /\ LET u == loc[p].unit_id
         data == loc[p].data
     IN IF SellersRaise(history, u, data)
        THEN Finish(p, Internal) /\ UNCHANGED <<loc, cache>>
        ELSE /\ loc' = [loc EXCEPT ![p].updates = SellerUpdates(history, u, data),
                                   ![p].inserts = BuyerInserts(u, data),
                                   \* history only: line 110 removed the key
                                   ![p].deleted = (cache[u] # NoEntry)]
             /\ cache' = [cache EXCEPT ![u] = NoEntry]
             /\ pc' = [pc EXCEPT ![p] = "commit"]
             /\ UNCHANGED result
  /\ UNCHANGED <<store, req, past>>

\* the end of the `async with db.begin()` block, line 19: flush and commit,
\* or roll back when the store refuses a row (500 from the route)
Commit(p) ==
  /\ pc[p] = "commit"
  /\ IF \A i \in 1..Len(loc[p].inserts) :
          HistoryRowAccepted(owners, loc[p].inserts[i])
     THEN /\ history' = ApplyInserts(ApplyUpdates(history, loc[p].updates),
                                     loc[p].inserts)
          /\ documents' = ApplyDocumentUpdates(documents, loc[p].doc_updates)
          /\ transfers' = CompleteTransfer(transfers, loc[p].transfer_id)
          /\ Finish(p, Success)
     ELSE /\ UNCHANGED <<history, documents, transfers>>
          /\ Finish(p, Internal)
  /\ UNCHANGED <<units, owners, audit, cache, req, loc, past>>

\* the response is sent; the session is closed
CloseSession(p) ==
  /\ pc[p] = "done"
  /\ pc' = [pc EXCEPT ![p] = "idle"]
  /\ req' = [req EXCEPT ![p] = NoRequest]
  /\ loc' = [loc EXCEPT ![p] = NoLocals]
  /\ result' = [result EXCEPT ![p] = None]
  /\ UNCHANGED <<store, cache>>

Respond(p) == CloseSession(p) /\ UNCHANGED past

\* the same, and the history keeps the answer when the request was a Confirm
RespondObserved(p) ==
  /\ CloseSession(p)
  /\ past' = [past EXCEPT !.confirm =
                IF req[p].op = "validate"
                THEN [unit_id |-> req[p].payload.unit_id, status |-> result[p]]
                ELSE NoConfirm]

\* the key's TTL (ex=3600, line 199) runs out
CacheExpire(u) ==
  /\ cache[u] # NoEntry
  /\ cache' = [cache EXCEPT ![u] = NoEntry]
  /\ UNCHANGED <<store, pc, req, loc, result, past>>

\* a caller runs InheritanceHandler().handle_inheritance_transfer; the
\* answer is the exception raised, or "returned" with the value
CallHandleInheritanceTransfer(p, ownership_percentage, heirs) ==
  /\ pc[p] = "idle"
  /\ req' = [req EXCEPT ![p] =
               [op |-> "handle_inheritance_transfer",
                payload |-> [ownership_percentage |-> ownership_percentage,
                             heirs |-> heirs]]]
  /\ LET out == handle_inheritance_transfer("A", ownership_percentage, heirs)
     IN /\ loc' = [loc EXCEPT ![p].inheritance_shares = out.inheritance_shares]
        /\ Finish(p, out.raised)
  /\ UNCHANGED <<store, cache, past>>

\* POST /ownership/transfers/inheritance-distribution,
\* src/app/api/v1/ownership.py 68-111
InitiateInheritanceDistribution(p, r) ==
  /\ pc[p] = "idle"
  /\ req' = [req EXCEPT ![p] = [op |-> "inheritance", payload |-> r]]
  /\ pc' = [pc EXCEPT ![p] = "inheritance_distribution"]
  /\ UNCHANGED <<store, cache, loc, result, past>>

\* inheritance_distribution, src/app/services/initiate_inheritance_service.py
\* 9-15: the deceased owner is looked up, 404 when there is no row; the
\* function ends there and returns None, which the route answers with 200
InheritanceDistribution(p) ==
  /\ pc[p] = "inheritance_distribution"
  /\ LET deceased_owner ==
           {o \in owners : o.owner_id = req[p].payload.deceased_owner_id}
     IN IF deceased_owner = {} THEN Finish(p, NotFound)
        ELSE Finish(p, Success)
  /\ UNCHANGED <<store, cache, req, loc, past>>

Handle(p) ==
  \/ \E cached \in BOOLEAN : ProcessTransfer(p, cached)
  \/ FindTransfer(p)
  \/ VerifyTransferDocuments(p, PlaceholderAnswers(documents))
  \/ ReadCache(p)
  \/ ApplyDistribution(p)
  \/ Commit(p)
  \/ Respond(p)

AllIdle == \A p \in Procs : pc[p] = "idle"

\* the requests of the sequential runs: a transfer found in flight may carry
\* a document of any status, a document submitted now is pending or is
\* marked not verified by the client
SubmittedRequests ==
  {r \in TransferRequests :
     \A i \in DOMAIN r.documents :
        r.documents[i] \in {"pending", "not verified"}}

\* one request at a time
Next ==
  \/ AllIdle /\ \E r \in SubmittedRequests : InitiateTransfer(1, r)
  \/ AllIdle /\ \E u \in Units \cup {MissingUnit} : ValidateTransfer(1, u)
  \/ Handle(1)
  \/ \E u \in Units : CacheExpire(u)

Spec == Init /\ [][Next]_vars

\* the requests of the concurrent runs: both co-owners sell 40 to one buyer
ConcurrentRequests ==
  {r \in TransferRequests :
     /\ r.documents = <<>>
     /\ r.current_owners \in
          [{"A", "B"} -> {[ownership_percentage |-> 100,
                           transfer_percentage |-> 40]}]
     /\ r.new_owners \in
          {<<[emirates_id |-> e, ownership_percentage |-> 80]>> :
             e \in {"784-C", "784-X"}}}

\* requests are handled concurrently, each in its own session
NextConcurrent ==
  \/ \E p \in Procs, r \in ConcurrentRequests : InitiateTransfer(p, r)
  \/ \E p \in Procs, u \in Units \cup {MissingUnit} : ValidateTransfer(p, u)
  \/ \E p \in Procs : Handle(p)
  \/ \E u \in Units : CacheExpire(u)

SpecConcurrent == Init /\ [][NextConcurrent]_vars

\* one request at a time, the verifier being the external service, the
\* history recording every answered Confirm
HandleObserved(p) ==
  \/ \E cached \in BOOLEAN : ProcessTransfer(p, cached)
  \/ FindTransfer(p)
  \/ \E answers \in ExternalAnswers(documents) :
        VerifyTransferDocuments(p, answers)
  \/ ReadCache(p)
  \/ ApplyDistribution(p)
  \/ Commit(p)
  \/ RespondObserved(p)

NextObserved ==
  \/ AllIdle /\ \E r \in ConcurrentRequests : InitiateTransfer(1, r)
  \/ AllIdle /\ \E u \in Units \cup {MissingUnit} : ValidateTransfer(1, u)
  \/ HandleObserved(1)
  \/ \E u \in Units : CacheExpire(u)

SpecObserved == Init /\ [][NextObserved]_vars

\* the inheritance requests and the calls of the distributor, one at a time
NextInheritance ==
  \/ AllIdle /\ \E P \in EstatePercentages, heirs \in HeirMaps :
                  CallHandleInheritanceTransfer(1, P, heirs)
  \/ AllIdle /\ \E r \in InheritanceRequests :
                  InitiateInheritanceDistribution(1, r)
  \/ InheritanceDistribution(1)
  \/ Respond(1)

SpecInheritance == Init /\ [][NextInheritance]_vars

(***************************************************************************)
(* Properties                                                              *)
(***************************************************************************)
\* the rows of a unit that count as current ownership
CurrentRows(u) == {h \in history : h.unit_id = u /\ h.is_current_owner}
CurrentTotal(u) ==
  LET rows == CurrentRows(u)
  IN SumOver([h \in rows |-> h.ownership_percentage], rows)

\* request p is an Initiate whose handler returns in this step
InitiateReturns(p) == pc[p] = "process_transfer" /\ pc'[p] = "done"

\* what the ledger holds for the unit of request r before the step
LedgerOf(r) == DbOwnerships(CurrentOwnershipRecords(history, r.unit_id))
Idle(u) == InFlightTransfers(transfers, u) = {}
TotalTransferred(r) ==
  SumOver([o \in DOMAIN r.current_owners |->
             r.current_owners[o].transfer_percentage], DOMAIN r.current_owners)
TotalAcquired(r) == SumSeq(r.new_owners)

AtMostOneInFlight ==
  \A u \in Units : Cardinality(InFlightTransfers(transfers, u)) <= 1
SingleInFlightTransfer ==
  /\ []AtMostOneInFlight
  /\ [][\A p \in Procs :
          (InitiateReturns(p) /\ ~ Idle(req[p].payload.unit_id))
            => (result'[p] = Conflict /\ transfers' = transfers)]_vars
InitiateOnBusyUnitRejected ==
  \E p \in Procs :
    /\ pc[p] = "done" /\ req[p].op = "initiate" /\ result[p] = Conflict
    /\ Cardinality(InFlightTransfers(transfers, req[p].payload.unit_id)) = 1

\* C3: an Initiate for an existing unit with no in-flight Transfer, a ledger
\* that sums to 100, sellers that are exactly the current owners (one or
\* several), none transferring more than the ledger gives them, and balanced
\* percentages succeeds and creates exactly one pending Transfer.
Wellformed(r) ==
  /\ r.unit_id \in units
  /\ Idle(r.unit_id)
  /\ CurrentOwnershipRecords(history, r.unit_id) # {}
  /\ SumValues(LedgerOf(r)) = FullOwnership
  /\ DOMAIN r.current_owners = DOMAIN LedgerOf(r)
  /\ \A o \in DOMAIN r.current_owners :
        r.current_owners[o].transfer_percentage <= LedgerOf(r)[o]
  /\ TotalTransferred(r) = TotalAcquired(r)
WellformedInitiateSucceeds ==
  [][\A p \in Procs :
       (InitiateReturns(p) /\ Wellformed(req[p].payload))
         => /\ result'[p] = Success
            /\ \E t \in transfers' :
                 /\ transfers' \ transfers = {t}
                 /\ t.status = "pending"
                 /\ t.unit_id = req[p].payload.unit_id]_vars

\* C4: on unit U1 owned 100% by A, Initiate(A transfers 40, buyer B gets 40)
\* leaves a pending Transfer and the staged entry sellers {A: 60}, buyers
\* {B: 40}; the Confirm that applies this entry leaves A 60 and B 40 as the
\* current shares, the Transfer completed and no staged entry.
SaleOfFortyPercent ==
  [unit_id |-> "U1",
   current_owners |-> [o \in {"A"} |-> [ownership_percentage |-> 100,
                                        transfer_percentage |-> 40]],
   new_owners |-> <<[emirates_id |-> "784-B", ownership_percentage |-> 40]>>,
   documents |-> <<>>, transfer_date |-> "2024-01-01"]
StagedSaleOfFortyPercent(entry) ==
  /\ entry # NoEntry
  /\ entry.sellers = [o \in {"A"} |-> 60]
  /\ entry.buyers = [o \in {"B"} |-> 40]
EndToEndSale ==
  [][\A p \in Procs :
       /\ (/\ InitiateReturns(p)
           /\ req[p].payload = SaleOfFortyPercent
           /\ Idle("U1")
           /\ LedgerOf(SaleOfFortyPercent) = [o \in {"A"} |-> 100])
            => /\ result'[p] = Success
               /\ \E t \in InFlightTransfers(transfers', "U1") :
                    t.status = "pending"
               /\ StagedSaleOfFortyPercent(cache'["U1"])
       /\ (/\ pc[p] = "commit" /\ pc'[p] = "done"
           /\ loc[p].unit_id = "U1"
           /\ StagedSaleOfFortyPercent(loc[p].data))
            => /\ result'[p] = Success
               /\ {<<h.owner_id, h.ownership_percentage>> :
                     h \in {g \in history' : g.unit_id = "U1"
                                              /\ g.is_current_owner}}
                    = {<<"A", 60>>, <<"B", 40>>}
               /\ Idle("U1")'
               /\ cache'["U1"] = NoEntry]_vars

\* C5: an Initiate in which a seller transfers more than the ledger records
\* as that seller's current percentage is rejected with a validation error.
TransfersMoreThanOwned(r) ==
  \E o \in DOMAIN r.current_owners \cap DOMAIN LedgerOf(r) :
     r.current_owners[o].transfer_percentage > LedgerOf(r)[o]
OverTransferRejected ==
  [][\A p \in Procs :
       (/\ pc[p] \in {"idle", "process_transfer"} /\ pc'[p] = "done"
        /\ req'[p].op = "initiate"
        /\ TransfersMoreThanOwned(req'[p].payload))
         => result'[p] \in {Unprocessable, BadRequest}]_vars

\* C6: a request whose seller transfer percentages do not sum to the buyer
\* percentages is rejected with 422 by schema validation: process_transfer
\* is never entered for it, and the store and the cache are left as they were.
Unbalanced(r) == TotalTransferred(r) # TotalAcquired(r)
UnbalancedRejectedBeforeIO ==
  /\ [](\A p \in Procs :
          (req[p].op = "initiate" /\ Unbalanced(req[p].payload))
            => (pc[p] = "done" /\ result[p] = Unprocessable))
  /\ [][\A p \in Procs :
          (/\ pc[p] = "idle" /\ pc'[p] # "idle"
           /\ req'[p].op = "initiate" /\ Unbalanced(req'[p].payload))
            => UNCHANGED <<store, cache>>]_vars
UnbalancedRequestRejected ==
  \E p \in Procs :
    /\ pc[p] = "done" /\ req[p].op = "initiate" /\ result[p] = Unprocessable
    /\ Unbalanced(req[p].payload)
    /\ \A o \in DOMAIN req[p].payload.current_owners :
          req[p].payload.current_owners[o].transfer_percentage
            <= req[p].payload.current_owners[o].ownership_percentage

\* C7: an Initiate for an existing unit with no in-flight Transfer and a
\* ledger that sums to 100 fails with 400 and persists nothing when the
\* seller ids of the request are not exactly the current owners.
SellersAreNotTheOwners(r) ==
  /\ r.unit_id \in units
  /\ Idle(r.unit_id)
  /\ CurrentOwnershipRecords(history, r.unit_id) # {}
  /\ SumValues(LedgerOf(r)) = FullOwnership
  /\ DOMAIN r.current_owners # DOMAIN LedgerOf(r)
SellerMismatchRejected ==
  [][\A p \in Procs :
       (InitiateReturns(p) /\ SellersAreNotTheOwners(req[p].payload))
         => (result'[p] = BadRequest /\ UNCHANGED <<store, cache>>)]_vars

\* C8: an Initiate for an existing unit that has no current-interval rows
\* fails with 404, not 500, and persists nothing.
HasNoLedger(r) ==
  /\ r.unit_id \in units
  /\ Idle(r.unit_id)
  /\ CurrentOwnershipRecords(history, r.unit_id) = {}
EmptyLedgerNotFound ==
  [][\A p \in Procs :
       (InitiateReturns(p) /\ HasNoLedger(req[p].payload))
         => (result'[p] = NotFound /\ UNCHANGED <<store, cache>>)]_vars

\* C9: of two Initiates handled concurrently for one unit at most one
\* succeeds and commits a pending Transfer; when one succeeds the other
\* fails with Conflict.
BothAnswered(p, q, op) ==
  /\ p # q
  /\ pc[p] = "done" /\ pc[q] = "done"
  /\ req[p].op = op /\ req[q].op = op
  /\ req[p].payload.unit_id = req[q].payload.unit_id
ConcurrentInitiatesExclusive ==
  \A p, q \in Procs :
    BothAnswered(p, q, "initiate")
      => /\ ~ (result[p] = Success /\ result[q] = Success)
         /\ result[p] = Success => result[q] = Conflict
         /\ Cardinality(InFlightTransfers(transfers, req[p].payload.unit_id)) <= 1
ConcurrentInitiatesAnswered ==
  \E p, q \in Procs :
    /\ BothAnswered(p, q, "initiate")
    /\ req[p].payload.unit_id \in units
    /\ loc[p].overlapped
    /\ result[p] = Conflict /\ result[q] = Conflict

\* C10: two Confirms handled concurrently for one unit apply the staged
\* distribution at most once: they do not both succeed, and no buyer interval
\* is inserted twice.
BuyerRowsInsertedOnce ==
  \A h, g \in history :
    (/\ h.unit_id = g.unit_id /\ h.owner_id = g.owner_id
     /\ h.ownership_start_date = g.ownership_start_date
     /\ h.is_current_owner /\ g.is_current_owner)
      => h = g
ConcurrentConfirmsApplyOnce ==
  /\ BuyerRowsInsertedOnce
  /\ \A p, q \in Procs :
       BothAnswered(p, q, "validate")
         => ~ (result[p] = Success /\ result[q] = Success)

\* a step of request p, a Confirm, that leaves handler position at
ConfirmLeaves(p, at) ==
  pc[p] = at /\ pc'[p] # at /\ req[p].op = "validate"

\* C11: a Confirm for a unit that has no Transfer with status pending or
\* in_progress is answered 404 as soon as the Transfer is looked up, and
\* neither the request's arrival nor the lookup changes the store or the cache.
NoTransferInFlight(u) ==
  \A t \in transfers :
     t.unit_id = u => t.status \notin {"pending", "in_progress"}
ConfirmWithoutTransferNotFound ==
  [][\A p \in Procs :
       /\ (pc[p] = "idle" /\ req'[p].op = "validate")
            => UNCHANGED <<store, cache>>
       /\ (ConfirmLeaves(p, "find_transfer")
           /\ NoTransferInFlight(req[p].payload.unit_id))
            => /\ pc'[p] = "done"
               /\ result'[p] = NotFound
               /\ UNCHANGED <<store, cache>>]_vars
ConfirmFoundNoTransfer ==
  \E p \in Procs :
    /\ pc[p] = "done" /\ req[p].op = "validate" /\ result[p] = NotFound
    /\ req[p].payload.unit_id \in units
    /\ NoTransferInFlight(req[p].payload.unit_id)
    /\ loc[p].transfer_id = 0

\* C12: when the verifier rejects a pending document during a Confirm, the
\* Confirm is answered 400, no ledger row changes, and once it has returned
\* the store holds the document as not verified.
VerifierRejects == past'.rejected \ past.rejected
RejectedDocumentRecorded ==
  [][\A p \in Procs :
       (ConfirmLeaves(p, "verify_documents") /\ VerifierRejects # {})
         => /\ pc'[p] = "done"
            /\ result'[p] = BadRequest
            /\ history' = history
            /\ \A d \in documents' :
                  d.document_id \in VerifierRejects
                    => d.verification_status = "not verified"]_vars

\* C13: once the verifier has rejected a document of a Transfer, every later
\* Confirm of that Transfer is answered 400 at the documents, finds the
\* document stored as not verified (so the verifier is not asked about it
\* again), and changes no ledger row.
RejectedBefore(p) ==
  {d \in documents : /\ d.transfer_id = loc[p].transfer_id
                     /\ d.document_id \in past.rejected}
RejectionIsFinal ==
  [][\A p \in Procs :
       (ConfirmLeaves(p, "verify_documents") /\ RejectedBefore(p) # {})
         => /\ pc'[p] = "done"
            /\ result'[p] = BadRequest
            /\ \A d \in RejectedBefore(p) :
                  d.verification_status = "not verified"
            /\ history' = history]_vars

FollowsConfirmOfUnit(p) ==
  /\ req'[p].op = "validate"
  /\ req'[p].payload.unit_id \in Units
  /\ past.confirm.unit_id = req'[p].payload.unit_id
  /\ cache[req'[p].payload.unit_id] = NoEntry
  /\ loc[p].data = NoEntry
SecondConfirmNotFound ==
  [][\A p \in Procs :
       (FollowsConfirmOfUnit(p) /\ pc[p] # "done" /\ pc'[p] # pc[p])
         => /\ history' = history
            /\ (pc'[p] = "done" /\ pc[p] \in {"find_transfer", "read_cache"})
                 => result'[p] = NotFound]_vars
SecondConfirmAnswered ==
  \E p \in Procs :
    /\ pc[p] = "done" /\ req[p].op = "validate" /\ result[p] = NotFound
    /\ past.confirm = [unit_id |-> req[p].payload.unit_id, status |-> Success]
    /\ cache[req[p].payload.unit_id] = NoEntry

\* C16: after a successful Confirm the current row of every seller who
\* transferred the whole share is closed (is_current_owner false, end date
\* the transfer date), and the current row of every seller who transferred
\* less is the seller's one row of before that is still current, with the
\* share less what was transferred.
ConfirmCommits(p) ==
  pc[p] = "commit" /\ pc'[p] = "done" /\ result'[p] = Success
RowAfter(h) == CHOOSE g \in history' : g.history_id = h.history_id
SellerRowsBefore(p, s) ==
  {h \in history : /\ h.unit_id = loc[p].unit_id /\ h.owner_id = s
                   /\ h.is_current_owner}
SellersClosedOrReduced ==
  [][\A p \in Procs :
       ConfirmCommits(p) =>
         \A s \in DOMAIN loc[p].data.sellers :
           \A h \in SellerRowsBefore(p, s) :
             LET remaining == loc[p].data.sellers[s]
                 transferred == h.ownership_percentage - remaining
             IN /\ transferred = h.ownership_percentage
                     => /\ ~ RowAfter(h).is_current_owner
                        /\ RowAfter(h).ownership_end_date
                             = loc[p].data.transfer_date
                /\ (transferred > 0 /\ transferred < h.ownership_percentage)
                     => /\ RowAfter(h).is_current_owner
                        /\ RowAfter(h).ownership_end_date = None
                        /\ RowAfter(h).ownership_percentage
                             = h.ownership_percentage - transferred
                        /\ {g \in SellerRowsBefore(p, s) :
                              RowAfter(g).is_current_owner} = {h}]_vars
SellersClosedAndReduced ==
  \E p \in Procs :
    /\ pc[p] = "done" /\ req[p].op = "validate" /\ result[p] = Success
    /\ \E s, t \in DOMAIN loc[p].data.sellers :
         /\ loc[p].data.sellers[s] = 0
         /\ loc[p].data.sellers[t] > 0
         /\ \E h, g \in history :
              /\ h.unit_id = loc[p].unit_id /\ g.unit_id = loc[p].unit_id
              /\ h.owner_id = s /\ ~ h.is_current_owner
              /\ h.ownership_end_date = loc[p].data.transfer_date
              /\ g.owner_id = t /\ g.is_current_owner
              /\ g.ownership_percentage = loc[p].data.sellers[t]

\* C17: when a Confirm fails while it applies the distribution or commits
\* it, no ledger row and no Transfer differs from before, and the request has
\* not removed the unit's staged entry.
ConfirmFailsInStepFour(p) ==
  /\ req[p].op = "validate"
  /\ pc[p] \in {"apply", "commit"}
  /\ pc'[p] = "done" /\ result'[p] # Success
FailedConfirmCanBeRetried ==
  [][\A p \in Procs :
       ConfirmFailsInStepFour(p)
         => /\ history' = history
            /\ transfers' = transfers
            /\ ~ loc'[p].deleted]_vars

\* C18: a Confirm that has removed the staged entry of a unit has completed
\* successfully, its Transfer completed; and no two Confirms remove the
\* entry of one Transfer.
StagedEntryRemovedOnSuccess ==
  /\ \A p \in Procs :
       (pc[p] = "done" /\ req[p].op = "validate" /\ loc[p].deleted)
         => /\ result[p] = Success
            /\ \E t \in transfers : /\ t.transfer_id = loc[p].transfer_id
                                    /\ t.status = "completed"
  /\ \A p, q \in Procs :
       (p # q /\ loc[p].deleted /\ loc[q].deleted)
         => loc[p].transfer_id # loc[q].transfer_id

\* C19: every change of a Transfer's status is pending -> in_progress,
\* in_progress -> completed or pending -> rejected.
StatusChanges ==
  {<<"pending", "in_progress">>, <<"in_progress", "completed">>,
   <<"pending", "rejected">>}
StatusLifecycle ==
  [][\A t \in transfers : \A n \in transfers' :
       (n.transfer_id = t.transfer_id /\ n.status # t.status)
         => <<t.status, n.status>> \in StatusChanges]_vars

\* C20: when a Confirm of a pending Transfer is answered 400 because of a
\* document, the Transfer's status is rejected afterwards and the unit has
\* no in-flight Transfer.
FailedValidationRejectsTransfer ==
  [][\A p \in Procs :
       (/\ ConfirmLeaves(p, "verify_documents")
        /\ pc'[p] = "done" /\ result'[p] = BadRequest)
         => /\ \A t \in transfers' :
                 t.transfer_id = loc[p].transfer_id => t.status = "rejected"
            /\ \A t \in transfers' :
                 t.unit_id = loc[p].unit_id
                   => t.status \notin {"pending", "in_progress"}]_vars

SplitAnswered(p) ==
  pc[p] = "done" /\ req[p].op = "handle_inheritance_transfer"
HeirsWho(heirs, relationship) ==
  {i \in 1..Len(heirs) : heirs[i] = relationship}
\* the call of p returned a mapping that gives heir i the share q
Gives(p, i, q) ==
  /\ result[p] = "returned"
  /\ loc[p].inheritance_shares.name = HeirNames[i]
  /\ loc[p].inheritance_shares.share = q
\* what is left of P for the children when there are w wives
Residue(P, w) ==
  IF w >= 1 THEN Minus(Whole(P), Over(Whole(P), 8)) ELSE Whole(P)

\* C22: the split of P gives each of w >= 1 wives (P/8)/w and leaves the
\* residue P - P/8, or P when there is no wife, which an only child
\* receives whole; one wife and one son on P = 100 receive 12.5 and 87.5.
WivesShareAnEighth ==
  \A p \in Procs :
    SplitAnswered(p) =>
      LET heirs == req[p].payload.heirs
          P == req[p].payload.ownership_percentage
          wives == HeirsWho(heirs, "wife")
          children == HeirsWho(heirs, "son") \cup HeirsWho(heirs, "daughter")
      IN /\ result[p] = "returned"
         /\ \A i \in wives :
               Gives(p, i, Over(Over(Whole(P), 8), Cardinality(wives)))
         /\ Cardinality(children) = 1
              => \A i \in children :
                    Gives(p, i, Residue(P, Cardinality(wives)))
         /\ (heirs = <<"wife", "son">> /\ P = 100)
              => Gives(p, 1, Frac(25, 2)) /\ Gives(p, 2, Frac(175, 2))

\* C23: the split gives, of the residue R, each of d daughters R/d when
\* there is no son, each of s sons R/s when there is no daughter, and
\* otherwise each son 2R/(2s+d) and each daughter R/(2s+d); two sons and a
\* daughter without a wife on P = 40 receive 16, 16 and 8.
ChildrenShareTheResidue ==
  \A p \in Procs :
    SplitAnswered(p) =>
      LET heirs == req[p].payload.heirs
          P == req[p].payload.ownership_percentage
          R == Residue(P, Cardinality(HeirsWho(heirs, "wife")))
          sons == HeirsWho(heirs, "son")
          daughters == HeirsWho(heirs, "daughter")
          s == Cardinality(sons)
          d == Cardinality(daughters)
      IN /\ (s = 0 /\ d > 0) => \A i \in daughters : Gives(p, i, Over(R, d))
         /\ (s > 0 /\ d = 0) => \A i \in sons : Gives(p, i, Over(R, s))
         /\ (s > 0 /\ d > 0)
              => /\ \A i \in sons :
                      Gives(p, i, Over(Times(R, 2), 2 * s + d))
                 /\ \A i \in daughters : Gives(p, i, Over(R, 2 * s + d))
         /\ (heirs = <<"son", "son", "daughter">> /\ P = 40)
              => /\ Gives(p, 1, Whole(16)) /\ Gives(p, 2, Whole(16))
                 /\ Gives(p, 3, Whole(8))

\* C24: an inheritance-distribution request that is answered 200 has left a
\* pending Transfer for its unit and a staged entry whose only seller is the
\* deceased owner and whose buyers hold the percentage P between them.
InheritanceGoesThroughInitiate ==
  [][\A p \in Procs :
       (/\ pc[p] = "inheritance_distribution" /\ pc'[p] = "done"
        /\ result'[p] = Success)
         => LET r == req[p].payload
            IN /\ \E t \in transfers' \ transfers :
                    t.unit_id = r.unit_id /\ t.status = "pending"
               /\ cache'[r.unit_id] # NoEntry
               /\ cache'[r.unit_id] # cache[r.unit_id]
               /\ DOMAIN cache'[r.unit_id].sellers = {r.deceased_owner_id}
               /\ SumValues(cache'[r.unit_id].buyers)
                    = r.ownership_percentage]_vars

\* C25: the mapping the split returns has an entry for exactly the heirs
\* that are a wife, a son or a daughter, none for an heir of another
\* relationship, and its shares sum to P when there is a son or a daughter.
MappingCoversTheHeirs ==
  \A p \in Procs :
    SplitAnswered(p) =>
      LET heirs == req[p].payload.heirs
          P == req[p].payload.ownership_percentage
          entitled == HeirsWho(heirs, "wife") \cup HeirsWho(heirs, "son")
                        \cup HeirsWho(heirs, "daughter")
          children == HeirsWho(heirs, "son") \cup HeirsWho(heirs, "daughter")
          mapping == loc[p].inheritance_shares
          names == IF mapping.name = "" THEN {} ELSE {mapping.name}
      IN /\ result[p] = "returned"
         /\ names = {HeirNames[i] : i \in entitled}
         /\ children # {} => mapping.share = Whole(P)

\* C26: the buyers of every staged distribution are keyed by the owner_id
\* of an Owner row of the store, and an Initiate that succeeds leaves an Owner
\* row for the national identifier of each of its buyers, under a key of its
\* own in the entry it stages.
OwnerIds == {o.owner_id : o \in owners}
FailedInitiateLeavesNoTrace ==
  [][\A p \in Procs :
       (/\ pc[p] \in {"idle", "process_transfer"} /\ pc'[p] = "done"
        /\ req'[p].op = "initiate"
        /\ result'[p] # Success)
         => UNCHANGED <<store, cache>>]_vars
InitiateForMissingUnitFailed ==
  \E p \in Procs :
    /\ pc[p] = "done" /\ req[p].op = "initiate"
    /\ result[p] \notin {Success, Unprocessable}
    /\ req[p].payload.unit_id = MissingUnit
    /\ transfers # {} /\ audit # {}

\* C29: the step in which a Confirm commits the new ledger rows and the
\* completed Transfer adds exactly one AuditLog row, and so does the step in
\* which an Initiate succeeds.
OneAuditEntryPerChange ==
  [][\A p \in Procs :
       /\ ConfirmCommits(p) => Cardinality(audit' \ audit) = 1
       /\ (InitiateReturns(p) /\ result'[p] = Success)
            => Cardinality(audit' \ audit) = 1]_vars

\* C30: no step removes an OwnershipHistory row or an AuditLog row or changes
\* an AuditLog row, and a row that is closed (not current) stays closed.
HistoryOnlyGrows ==
  [][/\ {h.history_id : h \in history} \subseteq {h.history_id : h \in history'}
     /\ audit \subseteq audit'
     /\ \A h \in history : \A g \in history' :
          (g.history_id = h.history_id /\ ~ h.is_current_owner)
            => (~ g.is_current_owner
                /\ g.ownership_end_date = h.ownership_end_date)]_vars
ClosedIntervalOutlivesRequest ==
  \E p \in Procs :
    /\ pc[p] = "done" /\ req[p].op = "initiate"
    /\ \E h \in history : ~ h.is_current_owner /\ h.ownership_end_date # None
    /\ audit # {}

\* C31: in every state a ledger row is current exactly when it has no end
\* date, so the rows of a unit Initiate reads (no end date) are the rows
\* Confirm selects (is_current_owner).
CurrentIffOpen ==
  /\ \A h \in history :
        h.is_current_owner <=> (h.ownership_end_date = None)
  /\ \A u \in Units :
        {h \in history : h.unit_id = u /\ h.ownership_end_date = None}
          = {h \in history : h.unit_id = u /\ h.is_current_owner}
ConfirmClosedAndOpenedRows ==
  \E p \in Procs :
    /\ pc[p] = "done" /\ req[p].op = "validate" /\ result[p] = Success
    /\ \E h, g \in history :
         /\ h.unit_id = loc[p].unit_id /\ g.unit_id = loc[p].unit_id
         /\ ~ h.is_current_owner
         /\ h.ownership_end_date = loc[p].data.transfer_date
         /\ g.is_current_owner
         /\ g.ownership_start_date = loc[p].data.transfer_date
         /\ g.owner_id \in DOMAIN loc[p].data.buyers

OfUnit(v) ==
  <<{h \in history : h.unit_id = v},
    {t \in transfers : t.unit_id = v},
    {d \in documents :
       \E t \in transfers : t.unit_id = v /\ t.transfer_id = d.transfer_id},
    cache[v]>>

OneCurrentRowPerOwner ==
  \A h, g \in history :
    (/\ h.unit_id = g.unit_id /\ h.owner_id = g.owner_id
     /\ h.is_current_owner /\ g.is_current_owner)
      => h.history_id = g.history_id

StagedEntryMatchesTransfer ==
  \A u \in Units :
    cache[u] # NoEntry
      => /\ \E t \in transfers :
              t.unit_id = u /\ t.status \in {"pending", "in_progress"}
         /\ SumValues(cache[u].sellers) + SumValues(cache[u].buyers)
              = FullOwnership
         /\ DOMAIN cache[u].sellers
              = {h.owner_id :
                   h \in {g \in history : g.unit_id = u /\ g.is_current_owner}}
StagedEntryAwaitsConfirm ==
  \E p \in Procs :
    /\ pc[p] = "done" /\ req[p].op = "validate" /\ result[p] = BadRequest
    /\ cache[req[p].payload.unit_id] # NoEntry
    /\ \E q \in Procs \ {p} :
         /\ pc[q] = "done" /\ req[q].op = "initiate" /\ result[q] = Conflict
         /\ req[q].payload.unit_id = req[p].payload.unit_id

\* the staged entry of the unit's in-flight Transfer is lost: there is none
\* in the cache and no Confirm under way has read one
EntryLost(u) ==
  /\ \E t \in transfers :
        t.unit_id = u /\ t.status \in {"pending", "in_progress"}
  /\ cache[u] = NoEntry
  /\ \A p \in Procs : loc[p].unit_id = u => loc[p].data = NoEntry
\* the ledger rows and the Transfers of the unit are left as they are
UnitFrozen(u) ==
  /\ {h \in history' : h.unit_id = u} = {h \in history : h.unit_id = u}
  /\ {t \in transfers' : t.unit_id = u} = {t \in transfers : t.unit_id = u}
\* request p is a Confirm for unit u that is answered in this step
ConfirmAnswered(p, u) ==
  /\ req[p].op = "validate" /\ req[p].payload.unit_id = u
  /\ pc[p] \notin {"idle", "done"} /\ pc'[p] = "done"

\* C38, as stated: once the staged entry of a pending Transfer is lost, no
\* step changes the Transfer or the unit's ledger, every Confirm for the
\* unit is answered 404 and every Initiate handled for it 409.
LostEntryMeansNotFound ==
  [][\A u \in Units :
       EntryLost(u)
         => /\ UnitFrozen(u)
            /\ \A p \in Procs :
                 /\ ConfirmAnswered(p, u) => result'[p] = NotFound
                 /\ (InitiateReturns(p) /\ req[p].payload.unit_id = u)
                      => result'[p] = Conflict]_vars

\* C38, amended: once the staged entry of a pending Transfer is lost, no
\* step changes the Transfer or the unit's ledger, every Confirm for the
\* unit fails, with 404 or, when a document of the Transfer is rejected or
\* is not verified, with 400, and every Initiate handled for it is answered
\* 409.
LostEntryBlocksTransfer ==
  [][\A u \in Units :
       EntryLost(u)
         => /\ UnitFrozen(u)
            /\ \A p \in Procs :
                 /\ ConfirmAnswered(p, u)
                      => result'[p] \in {NotFound, BadRequest}
                 /\ (InitiateReturns(p) /\ req[p].payload.unit_id = u)
                      => result'[p] = Conflict]_vars
LostEntryConfirmedTwice ==
  \E p \in Procs :
    /\ pc[p] = "done" /\ req[p].op = "validate" /\ result[p] = BadRequest
    /\ past.confirm = [unit_id |-> req[p].payload.unit_id, status |-> NotFound]
    /\ cache[req[p].payload.unit_id] = NoEntry
    /\ \E t \in transfers :
         t.unit_id = req[p].payload.unit_id /\ t.status = "pending"

====
